---- MODULE Spec2Model ----
(***************************************************************************)
(* A model of the paw-prints asset pipeline:                               *)
(*   utilities/setup_annotation.py        (annotation workspace staging)   *)
(*   utilities/generate_paw_collection.py (objects/ + metadata table)      *)
(*                                                                         *)
(* Text that the code takes apart is modelled as sequences of one-letter   *)
(* strings.  A source path is the record [dir, base, idx, ext]: the text   *)
(* of "/2023/a_2.jpg" is dir "/2023/", base "a", idx <<2>>, ext "jpg".     *)
(* Path(name).stem is (base, idx), the suffix is ext, and                  *)
(* f"{stem}_{i}{suffix}" appends i to idx, so two file names are equal as  *)
(* strings exactly when their records are equal.                           *)
(*                                                                         *)
(* The two scripts are separate programs.  setup_annotation reads nothing  *)
(* that generate_paw_collection writes, and generate_paw_collection reads  *)
(* of the annotation workspace only the species flags, which no property   *)
(* below looks at.  A behaviour is therefore a session with one of the     *)
(* two tools, named by the variable tool.                                  *)
(***************************************************************************)
EXTENDS Integers, Sequences, FiniteSets, TLC

VARIABLES
    tool,       \* the script this session runs
    csv,        \* rows of _data/paw_prints.csv (column image_path), in order
    srcExists,  \* the source files that exist on disk
    mapFile,    \* rows of _data/annotation_map.csv, in order
    annImg,     \* images in annotation/: records [name, content]
    annJson,    \* stems of the LabelMe .json sidecars in annotation/
    report,     \* what the last run of setup_annotation.main printed
    objects,    \* objects/paw_NNN.jpg: number -> content, for the files there
    small,      \* objects/small/paw_NNN_sm.jpg: records [oid, from]
    thumbs,     \* objects/thumbs/paw_NNN_th.jpg: records [oid, from]
    geoCache,   \* _data/geo_cache.json: "lat,lon" -> <<location, country>>
    emitted,    \* what the last run of generate_paw_collection.main wrote
    dateIn,     \* an argument pair of extract_date
    dateOut     \* its result

annVars == <<mapFile, annImg, annJson, report>>
genVars == <<objects, small, thumbs, geoCache, emitted>>
dateVars == <<dateIn, dateOut>>
vars == <<tool, csv, srcExists, annVars, genVars, dateVars>>

----------------------------------------------------------------------------
(* Bounds of the model *)

\* Longest paw_prints.csv the model edits into place.
MaxCsv == 3

Mk(d, b, ix, e) == [dir |-> d, base |-> b, idx |-> ix, ext |-> e]

\* The worklist of a setup_annotation session draws from: two folders
\* holding files of the same name, a file whose own name looks like a
\* generated duplicate name, and a file sharing a stem with others but not
\* its extension.
P1 == Mk(<<"/", "p", "/">>, <<"a">>, <<>>, "jpg")
P2 == Mk(<<"/", "q", "/">>, <<"a">>, <<>>, "jpg")
P3 == Mk(<<"/", "p", "/">>, <<"a">>, <<2>>, "jpg")
P4 == Mk(<<"/", "q", "/">>, <<"a">>, <<>>, "png")
AnnPaths == {P1, P2, P3, P4}

\* The worklist of a generate_paw_collection session draws from: a file
\* dated by its name, and two files dated by EXIF, one of them in a year
\* folder.
G1 == Mk(<<"/">>, <<"2", "0", "2", "4", "0", "1", "0", "2">>, <<>>, "jpg")
G2 == Mk(<<"/", "2", "0", "2", "3", "/">>, <<"b">>, <<>>, "jpg")
G3 == Mk(<<"/", "x", "/">>, <<"c">>, <<>>, "jpg")
GenPaths == {G1, G2, G3}

\* The source files that come and go during a session.
Volatile == {P2, G2}

Tools == {"setup_annotation", "generate_paw_collection"}
SrcPaths == IF tool = "setup_annotation" THEN AnnPaths ELSE GenPaths

\* A row whose image_path is empty after strip().
Blank == Mk(<<>>, <<>>, <<>>, "")
CsvRows == SrcPaths \cup {Blank}

----------------------------------------------------------------------------
(* pathlib *)

\* Path(p).name
PathName(p) == [base |-> p.base, idx |-> p.idx, ext |-> p.ext]
\* Path(name).stem
Stem(n) == [base |-> n.base, idx |-> n.idx]
\* f"{stem}_{i}{suffix}"
Candidate(n, i) == [base |-> n.base, idx |-> Append(n.idx, i), ext |-> n.ext]

----------------------------------------------------------------------------
(* dict, kept in insertion order as a sequence of [src, ann] *)

Keys(m) == {m[i].src : i \in DOMAIN m}
Values(m) == {m[i].ann : i \in DOMAIN m}
HasKey(m, k) == \E i \in DOMAIN m : m[i].src = k
Get(m, k) == (CHOOSE i \in DOMAIN m : m[i].src = k)
GetAnn(m, k) == m[Get(m, k)].ann
\* m[k] = v: replaces in place, or appends
DictSet(m, k, v) ==
    IF HasKey(m, k)
    THEN [i \in DOMAIN m |-> IF m[i].src = k THEN [src |-> k, ann |-> v] ELSE m[i]]
    ELSE Append(m, [src |-> k, ann |-> v])
\* m.pop(k)
DictPop(m, k) == SelectSeq(m, LAMBDA e : e.src # k)

RECURSIVE load_rows(_, _)
load_rows(rows, acc) ==
    IF rows = <<>> THEN acc
    ELSE load_rows(Tail(rows), DictSet(acc, Head(rows).src, Head(rows).ann))
\* load_map gone wrong: the saved mapping is not read back
load_nothing(file) == <<>>

\* load_map: {} when the file is absent, else the rows folded into a dict
load_map(file) == load_rows(file, <<>>)
\* save_map: one row per item, in the dict's order
save_map(mapping) == mapping

----------------------------------------------------------------------------
(* setup_annotation.py *)

\* paths = [row.strip() for row in reader if row.strip()]
read_paths(rows) == SelectSeq(rows, LAMBDA r : r # Blank)

RECURSIVE unique_from(_, _, _)
unique_from(wanted, taken, i) ==
    IF Candidate(wanted, i) \notin taken THEN Candidate(wanted, i)
    ELSE unique_from(wanted, taken, i + 1)

\* unique_name gone wrong: the wanted name is handed out as it is
unique_name_clobber(wanted, taken) == wanted

unique_name(wanted, taken) ==
    IF wanted \notin taken THEN wanted ELSE unique_from(wanted, taken, 2)

\* shutil.copy2(src, dest): dest is created or overwritten with src's bytes
copy2(img, src, dest) ==
    {f \in img : f.name # dest} \cup {[name |-> dest, content |-> src]}

\* unlink if exists
unlink_img(img, name) == {f \in img : f.name # name}
unlink_json(json, name) == json \ {Stem(name)}

\* the test "src_path not in current_paths" of the removal loop
is_stale(src_path, current_paths) == src_path \notin current_paths

RECURSIVE remove_stale(_, _, _)
\* for src_path in list(mapping): ... (lines 71-80)
remove_stale(keys, current_paths, acc) ==
    IF keys = <<>> THEN acc
    ELSE LET src_path == Head(keys).src IN
         IF is_stale(src_path, current_paths)
         THEN LET ann_name == GetAnn(acc.mapping, src_path) IN
              remove_stale(Tail(keys), current_paths,
                  [mapping |-> DictPop(acc.mapping, src_path),
                   img |-> unlink_img(acc.img, ann_name),
                   json |-> unlink_json(acc.json, ann_name),
                   removed_count |-> acc.removed_count + 1])
         ELSE remove_stale(Tail(keys), current_paths, acc)

\* already_mapped gone wrong: the copy loop skips nothing
never_mapped(mapping, src_path) == FALSE

\* the test "src_path in mapping" of the copy loop
already_mapped(mapping, src_path) == HasKey(mapping, src_path)

\* source_missing gone wrong: the copy loop does not look for the file
source_never_missing(src_path, exists) == FALSE

\* the test "not src.exists()" of the copy loop
source_missing(src_path, exists) == src_path \notin exists

\* one iteration of the copy loop (lines 88-107)
copy_step(acc, src_path, exists) ==
    IF already_mapped(acc.mapping, src_path)
    THEN [acc EXCEPT !.skip_count = @ + 1]
    ELSE IF source_missing(src_path, exists)
    THEN [acc EXCEPT !.error_count = @ + 1]
    ELSE LET ann_name == unique_name(PathName(src_path), acc.taken) IN
         [acc EXCEPT !.img = copy2(@, src_path, ann_name),
                     !.mapping = DictSet(@, src_path, ann_name),
                     !.taken = @ \cup {ann_name},
                     !.new_count = @ + 1]

RECURSIVE copy_loop(_, _, _)
copy_loop(paths, exists, acc) ==
    IF paths = <<>> THEN acc
    ELSE copy_loop(Tail(paths), exists, copy_step(acc, Head(paths), exists))

NoReport ==
    [ran |-> "none", rerun |-> FALSE, new_count |-> 0, skip_count |-> 0,
     error_count |-> 0, removed_count |-> 0]

\* setup_annotation.main, from reading the CSV to the printed summary
setup_annotation_main ==
    LET paths == read_paths(csv) IN
    IF paths = <<>>
    THEN /\ report' = [NoReport EXCEPT !.ran = "nothing",
                                       !.rerun = (report.ran # "none")]
         /\ UNCHANGED <<tool, csv, srcExists, mapFile, annImg, annJson>>
         /\ UNCHANGED <<genVars, dateVars>>
    ELSE \E kept \in {remove_stale(load_map(mapFile),
                            {paths[i] : i \in DOMAIN paths},
                            [mapping |-> load_map(mapFile), img |-> annImg,
                             json |-> annJson, removed_count |-> 0])} :
         \E done \in {copy_loop(paths, srcExists,
                        [mapping |-> kept.mapping, img |-> kept.img,
                         taken |-> Values(kept.mapping),
                         new_count |-> 0, skip_count |-> 0, error_count |-> 0])} :
            /\ mapFile' = save_map(done.mapping)
            /\ annImg' = done.img
            /\ annJson' = kept.json
            /\ report' = [ran |-> "done", rerun |-> (report.ran # "none"),
                          new_count |-> done.new_count,
                          skip_count |-> done.skip_count,
                          error_count |-> done.error_count,
                          removed_count |-> kept.removed_count]
            /\ UNCHANGED <<tool, csv, srcExists, genVars, dateVars>>


----------------------------------------------------------------------------
(* Text *)

Digits == <<"0", "1", "2", "3", "4", "5", "6", "7", "8", "9">>
IsDigit(c) == \E i \in DOMAIN Digits : Digits[i] = c
DigitVal(c) == (CHOOSE i \in DOMAIN Digits : Digits[i] = c) - 1
AllDigits(t) == \A i \in DOMAIN t : IsDigit(t[i])
\* the class [/\\] of the folder pattern, and the separators of a Windows path
IsSep(c) == c \in {"/", "\\"}

Min(S) == CHOOSE x \in S : \A y \in S : x <= y
Max(S) == CHOOSE x \in S : \A y \in S : x >= y

RECURSIVE IdxText(_)
IdxText(ix) ==
    IF ix = <<>> THEN <<>> ELSE <<"_", Digits[Head(ix) + 1]>> \o IdxText(Tail(ix))

ExtText(e) ==
    CASE e = "jpg" -> <<".", "j", "p", "g">>
      [] e = "png" -> <<".", "p", "n", "g">>
      [] OTHER -> <<>>

\* the image_path string of a source path
Text(p) == p.dir \o p.base \o IdxText(p.idx) \o ExtText(p.ext)

\* Path(path_str).stem: the last component, without its last suffix
StemOf(t) ==
    LET seps == {i \in DOMAIN t : IsSep(t[i])}
        name == IF seps = {} THEN t ELSE SubSeq(t, Max(seps) + 1, Len(t))
        dots == {i \in DOMAIN name : name[i] = "."}
    IN  IF dots # {} /\ Max(dots) > 1 /\ Max(dots) < Len(name)
        THEN SubSeq(name, 1, Max(dots) - 1)
        ELSE name

\* str.split(c)
RECURSIVE Split(_, _)
Split(t, c) ==
    LET hits == {i \in DOMAIN t : t[i] = c} IN
    IF hits = {} THEN <<t>>
    ELSE <<SubSeq(t, 1, Min(hits) - 1)>> \o Split(SubSeq(t, Min(hits) + 1, Len(t)), c)

\* str.strip()
Strip(t) ==
    LET inked == {i \in DOMAIN t : t[i] # " "} IN
    IF inked = {} THEN <<>> ELSE SubSeq(t, Min(inked), Max(inked))

\* int(t) raises unless t is a run of digits
IsInt(t) == t # <<>> /\ AllDigits(t)
RECURSIVE IntOf(_)
IntOf(t) ==
    IF t = <<>> THEN 0
    ELSE IntOf(SubSeq(t, 1, Len(t) - 1)) * 10 + DigitVal(t[Len(t)])

\* the code point of a character of a date
Ord(c) == IF c = "-" THEN 45 ELSE 48 + DigitVal(c)

\* a < b for Python strings
RECURSIVE StrLess(_, _)
StrLess(a, b) ==
    IF b = <<>> THEN FALSE
    ELSE IF a = <<>> THEN TRUE
    ELSE IF Head(a) = Head(b) THEN StrLess(Tail(a), Tail(b))
    ELSE Ord(Head(a)) < Ord(Head(b))

----------------------------------------------------------------------------
(* generate_paw_collection.extract_date *)

\* re.search(r"(\d{4})(\d{2})(\d{2})", stem), formatted Y-M-D; <<>> without a match
date_from_name(stem) ==
    LET hits == {i \in 1..(Len(stem) - 7) : AllDigits(SubSeq(stem, i, i + 7))} IN
    IF hits = {} THEN <<>>
    ELSE LET i == Min(hits) IN
         SubSeq(stem, i, i + 3) \o <<"-">> \o SubSeq(stem, i + 4, i + 5)
             \o <<"-">> \o SubSeq(stem, i + 6, i + 7)

\* the range test of line 107
date_in_range(y, mo, dy) ==
    1900 <= y /\ y <= 2100 /\ 1 <= mo /\ mo <= 12 /\ 1 <= dy /\ dy <= 31

NoDate == [kind |-> "none", date |-> <<>>]

\* the loop over exif_raw.items() (lines 100-108): the first date found, or
\* "raise" when int() fails
RECURSIVE exif_scan(_)
exif_scan(tags) ==
    IF tags = <<>> THEN NoDate
    ELSE LET e == Head(tags) IN
         IF e.tag \in {"DateTimeOriginal", "DateTime"}
         THEN LET parts == Split(Strip(e.value), " ")
                  d == Split(parts[1], ":")
              IN  IF Len(d) = 3 /\ Len(d[1]) = 4
                  THEN IF ~(IsInt(d[1]) /\ IsInt(d[2]) /\ IsInt(d[3]))
                       THEN [kind |-> "raise", date |-> <<>>]
                       ELSE IF date_in_range(IntOf(d[1]), IntOf(d[2]), IntOf(d[3]))
                       THEN [kind |-> "date",
                             date |-> d[1] \o <<"-">> \o d[2] \o <<"-">> \o d[3]]
                       ELSE exif_scan(Tail(tags))
                  ELSE exif_scan(Tail(tags))
         ELSE exif_scan(Tail(tags))

\* the try block (lines 96-110): Image.open or _getexif failing, and int()
\* failing, are swallowed
date_from_exif(exif) ==
    IF ~exif.readable THEN NoDate
    ELSE LET r == exif_scan(exif.tags) IN
         IF r.kind = "raise" THEN NoDate ELSE r

\* re.search(r"[/\\](\d{4})[/\\]", path_str); <<>> without a match
year_from_folder(t) ==
    LET hits == {i \in 1..(Len(t) - 5) :
                    /\ IsSep(t[i])
                    /\ AllDigits(SubSeq(t, i + 1, i + 4))
                    /\ IsSep(t[i + 5])}
    IN  IF hits = {} THEN <<>> ELSE SubSeq(t, Min(hits) + 1, Min(hits) + 4)

\* extract_date(path_str, image_path), image_path given as main gives it;
\* exif is what Image.open(image_path)._getexif() yields
extract_date(path_str, exif) ==
    LET byName == date_from_name(StemOf(path_str)) IN
    IF byName # <<>> THEN byName
    ELSE LET byExif == date_from_exif(exif) IN
         IF byExif.kind = "date" THEN byExif.date
         ELSE year_from_folder(path_str)

----------------------------------------------------------------------------
(* The source files of a generate_paw_collection session *)

T20210517 == <<"2", "0", "2", "1", ":", "0", "5", ":", "1", "7">>
T100000 == <<" ", "1", "0", ":", "0", "0", ":", "0", "0">>

\* img._getexif() of an existing file
Exif(p) ==
    CASE p = G2 -> [readable |-> TRUE,
                    tags |-> <<[tag |-> "Make", value |-> <<"x">>],
                               [tag |-> "DateTimeOriginal",
                                value |-> T20210517 \o T100000]>>]
      [] p = G3 -> [readable |-> TRUE,
                    tags |-> <<[tag |-> "DateTime", value |-> T20210517]>>]
      [] OTHER -> [readable |-> TRUE, tags |-> <<>>]

\* Image.open raises for a file that is not there
file_exif(p, there) ==
    IF there THEN Exif(p) ELSE [readable |-> FALSE, tags |-> <<>>]

\* extract_date(p, Path(p)) for each file of the session, there or not
DateOf ==
    [p \in AnnPaths \cup GenPaths |->
        [there \in BOOLEAN |-> extract_date(Text(p), file_exif(p, there))]]
file_date(p, exists) == DateOf[p][(p \in exists)]

\* src.stat().st_size; G1 and G2 differ in content and not in size
Size(p) == IF p = G3 THEN 2 ELSE 1

K1 == <<"48.1", "11.5">>
NoGps == <<"", "">>
\* extract_gps(src): (lat, lon) as decimal strings, or ('', '')
extract_gps(p) == IF p \in {G1, G2} THEN K1 ELSE NoGps
GpsKeys == {K1}

\* what reverse_geocoder.search may answer
GeoResults == {[name |-> "Munich", cc |-> "DE"], [name |-> "", cc |-> "XK"]}

\* CC_TO_NAME.get(cc, cc), for two of the table's entries
CcToName(cc) ==
    CASE cc = "DE" -> "Germany"
      [] cc = "FR" -> "France"
      [] OTHER -> cc

----------------------------------------------------------------------------
(* generate_paw_collection.main *)

\* extract_date(p, Path(p)) or "0000"
sort_key(p, exists) ==
    LET d == file_date(p, exists) IN
    IF d = <<>> THEN <<"0", "0", "0", "0">> ELSE d

\* where list.sort puts p among sorted paths: behind every path whose key
\* is not greater (the sort is stable)
insert_sorted(sorted, p, exists) ==
    LET k == sort_key(p, exists)
        le == {i \in DOMAIN sorted : ~StrLess(k, sort_key(sorted[i], exists))}
        n == IF le = {} THEN 0 ELSE Max(le)
    IN  SubSeq(sorted, 1, n) \o <<p>> \o SubSeq(sorted, n + 1, Len(sorted))

RECURSIVE sort_into(_, _, _)
sort_into(paths, exists, sorted) ==
    IF paths = <<>> THEN sorted
    ELSE sort_into(Tail(paths), exists, insert_sorted(sorted, Head(paths), exists))

\* paths.sort(key=lambda p: extract_date(p, Path(p)) or "0000")
sort_paths(paths, exists) == sort_into(paths, exists, <<>>)

\* changed = not dest.exists() or src.stat().st_size != dest.stat().st_size
is_changed(objs, i, src) == i \notin DOMAIN objs \/ Size(src) # Size(objs[i])

\* stale.unlink(missing_ok=True)
unlink_derivative(files, i) == {f \in files : f.oid # i}

\* cache_hit gone wrong: every key is looked up anew
cache_never_hit(cache, key) == FALSE

\* "cache_key in geo_cache"
cache_hit(cache, key) == key \in DOMAIN cache

\* lines 246-258: [location, country, cache, queries] for one image
locate(gps, cache, queries, geo) ==
    IF gps[1] # "" /\ gps[2] # ""
    THEN IF cache_hit(cache, gps)
         THEN [location |-> cache[gps][1], country |-> cache[gps][2],
               cache |-> cache, queries |-> queries]
         ELSE LET result == geo[gps]
                  city == result.name
                  cc == result.cc
                  location == IF city # "" THEN city \o ", " \o cc ELSE cc
                  country_name == CcToName(cc)
              IN  [location |-> location, country |-> country_name,
                   cache |-> (gps :> <<location, country_name>>) @@ cache,
                   queries |-> Append(queries, gps)]
    ELSE [location |-> "", country |-> "", cache |-> cache, queries |-> queries]

\* the object number of the i-th path of the sorted list (enumerate(..., 1));
\* oid is f"paw_{i:03d}", one name per number
object_number(i) == i

\* one iteration of the loop of lines 218-283; the row keeps the columns that
\* vary with the image and are not read from the annotation workspace
gen_step(acc, i, src_path, exists, geo) ==
    IF src_path \notin exists
    THEN [acc EXCEPT !.errors = Append(@, src_path)]
    ELSE LET oid == object_number(i)
             changed == is_changed(acc.objects, oid, src_path)
             gps == extract_gps(src_path)
             loc == locate(gps, acc.cache, acc.queries, geo)
         IN  [objects |-> (oid :> src_path) @@ acc.objects,
              small |-> IF changed THEN unlink_derivative(acc.small, oid)
                        ELSE acc.small,
              thumbs |-> IF changed THEN unlink_derivative(acc.thumbs, oid)
                         ELSE acc.thumbs,
              cache |-> loc.cache,
              queries |-> loc.queries,
              errors |-> acc.errors,
              changes |-> IF changed THEN acc.changes \cup {oid} ELSE acc.changes,
              rows |-> Append(acc.rows,
                         [objectid |-> oid,
                          date |-> file_date(src_path, exists),
                          latitude |-> gps[1], longitude |-> gps[2],
                          location |-> loc.location, country |-> loc.country,
                          source_file |-> src_path])]

RECURSIVE gen_loop(_, _, _, _, _)
gen_loop(paths, i, exists, geo, acc) ==
    IF i > Len(paths) THEN acc
    ELSE gen_loop(paths, i + 1, exists, geo, gen_step(acc, i, paths[i], exists, geo))

NoEmitted ==
    [ran |-> "none", rows |-> <<>>, errors |-> <<>>, queries |-> <<>>,
     changes |-> {}]

\* generate_paw_collection.main, from reading the CSV to the printed summary.
\* The two subprocess calls that end it start programs outside the Python
\* sources; the first is the action generate_derivatives below.
generate_paw_collection_main ==
    LET listed == read_paths(csv) IN
    IF listed = <<>>
    THEN /\ emitted' = [NoEmitted EXCEPT !.ran = "nothing"]
         /\ UNCHANGED <<tool, csv, srcExists, objects, small, thumbs, geoCache>>
         /\ UNCHANGED <<annVars, dateVars>>
    ELSE \E geo \in [GpsKeys -> GeoResults] :
         \E done \in {gen_loop(sort_paths(listed, srcExists), 1, srcExists, geo,
                        [objects |-> objects, small |-> small, thumbs |-> thumbs,
                         cache |-> geoCache, queries |-> <<>>, errors |-> <<>>,
                         changes |-> {}, rows |-> <<>>])} :
             /\ objects' = done.objects
             /\ small' = done.small
             /\ thumbs' = done.thumbs
             /\ geoCache' = done.cache
             /\ emitted' = [ran |-> "done", rows |-> done.rows,
                            errors |-> done.errors, queries |-> done.queries,
                            changes |-> done.changes]
             /\ UNCHANGED <<tool, csv, srcExists, annVars, dateVars>>

\* rake generate_derivatives: every object without a small image or a
\* thumbnail gets one, made from the object as it is now
generate_derivatives ==
    /\ small' = small \cup {[oid |-> i, from |-> objects[i]] :
                              i \in {j \in DOMAIN objects : \A f \in small : f.oid # j}}
    /\ thumbs' = thumbs \cup {[oid |-> i, from |-> objects[i]] :
                              i \in {j \in DOMAIN objects : \A f \in thumbs : f.oid # j}}
    /\ <<small', thumbs'>> # <<small, thumbs>>
    /\ UNCHANGED <<tool, csv, srcExists, objects, geoCache, emitted>>
    /\ UNCHANGED <<annVars, dateVars>>

----------------------------------------------------------------------------
(* The environment of the scripts *)

\* The user rewrites paw_prints.csv: a row more, or a row less.  What the
\* last run printed and emitted is no longer about the files as they are.
EditCsv ==
    /\ \/ \E r \in CsvRows : Len(csv) < MaxCsv /\ csv' = Append(csv, r)
       \/ \E i \in DOMAIN csv :
             csv' = SubSeq(csv, 1, i - 1) \o SubSeq(csv, i + 1, Len(csv))
    /\ report' = NoReport
    /\ emitted' = NoEmitted
    /\ UNCHANGED <<tool, srcExists, mapFile, annImg, annJson>>
    /\ UNCHANGED <<objects, small, thumbs, geoCache, dateVars>>

\* A source image appears on disk or disappears from it.
TouchSource ==
    /\ \E p \in Volatile \cap SrcPaths :
          srcExists' = IF p \in srcExists THEN srcExists \ {p}
                       ELSE srcExists \cup {p}
    /\ report' = NoReport
    /\ emitted' = NoEmitted
    /\ UNCHANGED <<tool, csv, mapFile, annImg, annJson>>
    /\ UNCHANGED <<objects, small, thumbs, geoCache, dateVars>>

\* LabelMe saves the annotation of an image of annotation/ as <stem>.json.
Annotate ==
    /\ \E f \in annImg : Stem(f.name) \notin annJson
                         /\ annJson' = annJson \cup {Stem(f.name)}
    /\ UNCHANGED <<tool, csv, srcExists, mapFile, annImg, report>>
    /\ UNCHANGED <<genVars, dateVars>>

----------------------------------------------------------------------------
(* Specifications *)

NoInput == [path |-> <<>>, exif |-> [readable |-> FALSE, tags |-> <<>>]]
NoOutput == [done |-> FALSE, date |-> <<>>]

\* A fresh checkout: no annotation workspace, no objects, no cache.
Fresh ==
    /\ csv = <<>>
    /\ srcExists = SrcPaths
    /\ mapFile = <<>>
    /\ annImg = {}
    /\ annJson = {}
    /\ report = NoReport
    /\ objects = <<>>
    /\ small = {}
    /\ thumbs = {}
    /\ geoCache = <<>>
    /\ emitted = NoEmitted
    /\ dateOut = NoOutput

Init == tool \in Tools /\ Fresh /\ dateIn = NoInput

NextAnn == EditCsv \/ TouchSource \/ setup_annotation_main
NextGen == EditCsv \/ TouchSource \/ generate_paw_collection_main

\* a session with either script
Next ==
    \/ tool = "setup_annotation" /\ NextAnn
    \/ tool = "generate_paw_collection" /\ NextGen
Spec == Init /\ [][Next]_vars

\* a setup_annotation session with the annotator at work
InitLabel == tool = "setup_annotation" /\ Fresh /\ dateIn = NoInput
NextLabel == NextAnn \/ Annotate
SpecLabel == InitLabel /\ [][NextLabel]_vars

\* a generate_paw_collection session with the derivatives built
InitBuild == tool = "generate_paw_collection" /\ Fresh /\ dateIn = NoInput
NextBuild == NextGen \/ generate_derivatives
SpecBuild == InitBuild /\ [][NextBuild]_vars

\* extract_date on its own: an argument pair is drawn, then the function runs
DateDirs ==
    {<<>>,
     <<"/", "2", "0", "2", "3", "/">>,
     <<"2", "0", "2", "3", "/">>,
     <<"\\", "2", "0", "2", "3", "\\">>,
     <<"/", "2", "0", "2", "3", "4", "/">>,
     <<"/", "x", "/">>}
DateStems ==
    {<<"a">>,
     <<"2", "0", "2", "4", "0", "1", "0", "2">>,
     <<"x", "2", "0", "2", "4", "0", "1", "0", "2", "3">>,
     <<"2", "0", "2", "4", "0", "1", "0">>}
Tag(t, v) == [tag |-> t, value |-> v]
T18000101 == <<"1", "8", "0", "0", ":", "0", "1", ":", "0", "1">>
T20211301 == <<"2", "0", "2", "1", ":", "1", "3", ":", "0", "1">>
Tabcd0101 == <<"a", "b", "c", "d", ":", "0", "1", ":", "0", "1">>
T202105 == <<"2", "0", "2", "1", ":", "0", "5">>
DateExifs ==
    {[readable |-> FALSE, tags |-> <<>>]} \cup
    {[readable |-> TRUE, tags |-> t] : t \in
        {<<>>,
         <<Tag("DateTimeOriginal", T20210517 \o T100000)>>,
         <<Tag("Make", <<"x">>), Tag("DateTime", T20210517)>>,
         <<Tag("DateTime", T18000101)>>,
         <<Tag("DateTime", T20211301), Tag("DateTimeOriginal", T20210517)>>,
         <<Tag("DateTime", Tabcd0101), Tag("DateTimeOriginal", T20210517)>>,
         <<Tag("DateTime", Tabcd0101)>>,
         <<Tag("DateTimeOriginal", T202105)>>}}
DateInputs ==
    {[path |-> d \o st \o ExtText("jpg"), exif |-> e] :
        d \in DateDirs, st \in DateStems, e \in DateExifs}

RunExtractDate ==
    /\ ~dateOut.done
    /\ dateOut' = [done |-> TRUE, date |-> extract_date(dateIn.path, dateIn.exif)]
    /\ UNCHANGED <<tool, csv, srcExists, annVars, genVars, dateIn>>

InitDate == tool = "generate_paw_collection" /\ Fresh /\ dateIn \in DateInputs
SpecDate == InitDate /\ [][RunExtractDate]_vars

----------------------------------------------------------------------------
(* Properties *)

\* a step that is a run of setup_annotation.main: the worklist and the
\* sources stay, a summary is printed
AnnRun ==
    /\ csv' = csv /\ srcExists' = srcExists /\ report'.ran # "none"
    /\ setup_annotation_main

\* a step that is a run of generate_paw_collection.main
GenRun ==
    /\ csv' = csv /\ srcExists' = srcExists /\ emitted'.ran # "none"
    /\ generate_paw_collection_main

\* the paths a run works through
Listed == {read_paths(csv)[i] : i \in DOMAIN read_paths(csv)}

\* Claim C1.  The source_file -> annotation_file mapping is stable: an entry
\* of the saved mapping whose source is listed in the CSV is in the saved
\* mapping after any step, with the same annotation_file, and its image in
\* annotation/ is the same file; a run copies exactly one file per entry
\* that it adds.
C1_MappingStable ==
    [][/\ \A i \in DOMAIN mapFile :
             mapFile[i].src \in Listed =>
                /\ \E j \in DOMAIN mapFile' : mapFile'[j] = mapFile[i]
                /\ \A f \in annImg : f.name = mapFile[i].ann => f \in annImg'
       /\ AnnRun =>
             report'.new_count = Cardinality(Keys(mapFile') \ Keys(mapFile))
      ]_vars

\* C1's case: a run kept an entry under the duplicate name it once got,
\* though the name it wanted is free again, and removed and added others.
C1_Witness ==
    /\ report.ran = "done"
    /\ report.skip_count > 0 /\ report.removed_count > 0 /\ report.new_count > 0
    /\ \E i \in DOMAIN mapFile :
          /\ mapFile[i].ann # PathName(mapFile[i].src)
          /\ \A j \in 1..(i - 1) : mapFile[j].ann # PathName(mapFile[i].src)

Injective(m) ==
    \A i, j \in DOMAIN m : (m[i].ann = m[j].ann \/ m[i].src = m[j].src) => i = j

\* what unique_name is to return for a wanted name and the reserved names
UniqueNameOk(wanted, taken) ==
    LET u == unique_name(wanted, taken) IN
    /\ wanted \notin taken => u = wanted
    /\ wanted \in taken =>
          \E i \in 2..(Cardinality(taken) + 2) :
             /\ u = Candidate(wanted, i)
             /\ u \notin taken
             /\ \A j \in 2..(i - 1) : Candidate(wanted, j) \in taken

\* Claim C2.  After any step the saved mapping is injective; unique_name,
\* asked for the name of any source against the names the mapping reserves,
\* returns the name itself when it is free and else stem_i for the smallest
\* i >= 2 that is free; and an entry a run adds carries the source's own
\* name or stem_i with the name and every stem_j, 2 <= j < i, reserved.
C2_NamesDisambiguated ==
    [][/\ Injective(mapFile')
       /\ \A p \in AnnPaths : UniqueNameOk(PathName(p), Values(mapFile'))
       /\ \A j \in DOMAIN mapFile' :
             mapFile'[j].src \notin Keys(mapFile) =>
                LET w == PathName(mapFile'[j].src)
                    a == mapFile'[j].ann
                    res == Values(mapFile')
                IN  \/ a = w
                    \/ \E i \in 2..(Len(mapFile') + 1) :
                          /\ a = Candidate(w, i)
                          /\ w \in res
                          /\ \A k \in 2..(i - 1) : Candidate(w, k) \in res
      ]_vars

\* C2's case: a source was given stem_3, stem_2 being a name of its own.
C2_Witness ==
    \E i, j \in DOMAIN mapFile :
       /\ mapFile[i].ann = Candidate(PathName(mapFile[i].src), 3)
       /\ mapFile[j].ann = Candidate(PathName(mapFile[i].src), 2)
       /\ mapFile[j].ann = PathName(mapFile[j].src)

\* Claim C10.  setup_annotation.main is idempotent: a run that follows a run
\* with the CSV and the source files as they were copies nothing, deletes
\* nothing, writes the mapping it read, in its order, and counts every
\* listed path as already mapped or as missing.
C10_Idempotent ==
    [][(report.ran # "none" /\ AnnRun) =>
          /\ mapFile' = mapFile
          /\ annImg' = annImg
          /\ annJson' = annJson
          /\ report'.new_count = 0
          /\ report'.removed_count = 0
          /\ report'.skip_count + report'.error_count = Len(read_paths(csv))
      ]_vars

\* C10's case: a second run over a worklist with mapped and missing paths
C10_Witness ==
    /\ report.rerun /\ report.ran = "done"
    /\ report.skip_count > 1 /\ report.error_count > 0

\* the positions of a sequence that hold an element of a set
Positions(q, S) == {i \in DOMAIN q : q[i] \in S}

\* Claim C5.  Skip-and-log on a missing source.  A run of setup_annotation
\* gives a listed path without a file no new mapping entry and no copy, maps
\* every listed path that has a file, and counts as missing the listed
\* positions whose path has no file and no entry, so that new + skipped +
\* missing is the number of listed paths.  A run of generate_paw_collection
\* gives such a path no row and no copy in objects/, a row to every other
\* listed position, and rows + errors is the number of listed paths.
C5_SkipAndLog ==
    [][/\ AnnRun =>
             LET paths == read_paths(csv)
                 gone == AnnPaths \ srcExists
             IN  /\ \A p \in Listed \cap gone :
                       /\ p \in Keys(mapFile') => p \in Keys(mapFile)
                       /\ {f \in annImg' : f.content = p} \subseteq annImg
                 /\ paths # <<>> => (Listed \ gone) \subseteq Keys(mapFile')
                 /\ report'.error_count
                       = Cardinality(Positions(paths, gone \ Keys(mapFile)))
                 /\ report'.new_count + report'.skip_count + report'.error_count
                       = Len(paths)
       /\ GenRun =>
             LET paths == read_paths(csv)
                 gone == GenPaths \ srcExists
                 sorted == sort_paths(paths, srcExists)
                 rows == emitted'.rows
             IN  /\ \A k \in DOMAIN rows : rows[k].source_file \notin gone
                 /\ \A i \in Positions(sorted, gone) :
                       /\ i \in DOMAIN objects' <=> i \in DOMAIN objects
                       /\ i \in DOMAIN objects => objects'[i] = objects[i]
                 /\ \A i \in Positions(sorted, srcExists) :
                       /\ i \in DOMAIN objects' /\ objects'[i] = sorted[i]
                       /\ \E k \in DOMAIN rows : rows[k].objectid = object_number(i)
                 /\ Len(emitted'.errors) = Cardinality(Positions(paths, gone))
                 /\ Len(rows) + Len(emitted'.errors) = Len(paths)
      ]_vars

\* C5's case: a run of generate_paw_collection skipped a missing source and
\* went on to give a row to a path behind it.
C5_Witness ==
    /\ emitted.ran = "done"
    /\ emitted.errors # <<>>
    /\ \E k \in DOMAIN emitted.rows :
          emitted.rows[k].objectid > object_number(Len(emitted.rows))

\* Claim C8.  The geocode cache is a flat, grow-only dictionary: no step
\* removes or changes an entry of geo_cache.json; a run queries the reverse
\* geocoder only for keys the cache lacked, each once; and every row it
\* emits with a latitude and a longitude carries the location and country
\* the flushed cache holds under "lat,lon".
C8_CacheGrowOnly ==
    [][/\ \A k \in DOMAIN geoCache :
             k \in DOMAIN geoCache' /\ geoCache'[k] = geoCache[k]
       /\ GenRun =>
             LET q == emitted'.queries
                 rows == emitted'.rows
             IN  /\ \A i \in DOMAIN q : q[i] \notin DOMAIN geoCache
                 /\ \A i, j \in DOMAIN q : q[i] = q[j] => i = j
                 /\ DOMAIN geoCache' = DOMAIN geoCache \cup {q[i] : i \in DOMAIN q}
                 /\ \A k \in DOMAIN rows :
                       LET key == <<rows[k].latitude, rows[k].longitude>> IN
                       IF key[1] # "" /\ key[2] # ""
                       THEN /\ key \in DOMAIN geoCache'
                            /\ geoCache'[key] = <<rows[k].location, rows[k].country>>
                       ELSE rows[k].location = "" /\ rows[k].country = ""
      ]_vars

\* C8's case: a run found every key in the cache of an earlier run, and
\* emitted two rows with coordinates and one without.
C8_Witness ==
    /\ emitted.ran = "done"
    /\ emitted.queries = <<>>
    /\ geoCache # <<>>
    /\ Cardinality({k \in DOMAIN emitted.rows : emitted.rows[k].latitude # ""}) > 1
    /\ \E k \in DOMAIN emitted.rows : emitted.rows[k].latitude = ""

C4_WorkPreserved ==
    [][\A i \in DOMAIN mapFile :
          mapFile[i].src \in Listed =>
             /\ \A f \in annImg : f.name = mapFile[i].ann => f \in annImg'
             /\ Stem(mapFile[i].ann) \in annJson => Stem(mapFile[i].ann) \in annJson'
      ]_vars

\* the subsequence of the paths whose sort key is k
WithKey(paths, k) == SelectSeq(paths, LAMBDA p : sort_key(p, srcExists) = k)

\* Claim C6.  The rows of the emitted table have object numbers that
\* strictly increase, are in non-decreasing order of the date sort key with
\* ties in CSV order, and are numbered 1, 2, ... without gaps.
C6_NumberedInDateOrder ==
    emitted.ran = "done" =>
       LET rows == emitted.rows
           srcs == [k \in DOMAIN rows |-> rows[k].source_file]
           found == SelectSeq(read_paths(csv), LAMBDA p : p \in srcExists)
       IN  /\ \A j, k \in DOMAIN rows :
                j < k => /\ rows[j].objectid < rows[k].objectid
                         /\ ~StrLess(sort_key(srcs[k], srcExists),
                                     sort_key(srcs[j], srcExists))
           /\ \A p \in Listed :
                 WithKey(srcs, sort_key(p, srcExists))
                    = WithKey(found, sort_key(p, srcExists))
           /\ \A k \in DOMAIN rows : rows[k].objectid = object_number(k)

\* Claim C7.  For every object a run of generate_paw_collection.main
\* writes: if objects/<oid>.jpg was absent or had another content than the
\* source now given that number, the run leaves no small image and no
\* thumbnail of that number; otherwise it leaves those two as they were.
C7_StaleDerivativesWiped ==
    [][GenRun =>
          \A k \in DOMAIN emitted'.rows :
             LET i == emitted'.rows[k].objectid
                 src == emitted'.rows[k].source_file
             IN  IF i \notin DOMAIN objects \/ objects[i] # src
                 THEN /\ \A f \in small' : f.oid # i
                      /\ \A f \in thumbs' : f.oid # i
                 ELSE /\ {f \in small' : f.oid = i} = {f \in small : f.oid = i}
                      /\ {f \in thumbs' : f.oid = i} = {f \in thumbs : f.oid = i}
      ]_vars

\* the date part of an EXIF value as the claim reads it: the text before
\* the first blank, three numbers between colons
ExifDateParts(v) == Split(Split(Strip(v), " ")[1], ":")
ExifDateValid(v) ==
    LET d == ExifDateParts(v) IN
    /\ Len(d) = 3
    /\ \A n \in 1..3 : IsInt(d[n])
    /\ date_in_range(IntOf(d[1]), IntOf(d[2]), IntOf(d[3]))
ExifDates(exif) ==
    IF ~exif.readable THEN {}
    ELSE {LET d == ExifDateParts(exif.tags[n].value)
          IN  d[1] \o <<"-">> \o d[2] \o <<"-">> \o d[3] :
             n \in {m \in DOMAIN exif.tags :
                      /\ exif.tags[m].tag \in {"DateTimeOriginal", "DateTime"}
                      /\ ExifDateValid(exif.tags[m].value)}}

\* the directory components of a path: what stands between separators,
\* before the file name
RECURSIVE Components(_)
Components(t) ==
    LET seps == {i \in DOMAIN t : IsSep(t[i])} IN
    IF seps = {} THEN <<>>
    ELSE <<SubSeq(t, 1, Min(seps) - 1)>>
            \o Components(SubSeq(t, Min(seps) + 1, Len(t)))
YearFolders(t) ==
    {Components(t)[n] : n \in {m \in DOMAIN Components(t) :
                                  /\ Len(Components(t)[m]) = 4
                                  /\ AllDigits(Components(t)[m])}}

\* Claim C9.  extract_date follows a strict fallback chain: YYYY-MM-DD from
\* the first eight consecutive digits of the file stem; else the date of a
\* DateTimeOriginal or DateTime value with year in 1900..2100, month in
\* 1..12 and day in 1..31; else the year of a four-digit directory
\* component of the path; else the empty string.
C9_FallbackChain ==
    dateOut.done =>
       LET stem == StemOf(dateIn.path)
           runs == {i \in 1..(Len(stem) - 7) : AllDigits(SubSeq(stem, i, i + 7))}
       IN  IF runs # {}
           THEN dateOut.date = SubSeq(stem, Min(runs), Min(runs) + 3) \o <<"-">>
                                  \o SubSeq(stem, Min(runs) + 4, Min(runs) + 5)
                                  \o <<"-">>
                                  \o SubSeq(stem, Min(runs) + 6, Min(runs) + 7)
           ELSE IF ExifDates(dateIn.exif) # {}
           THEN dateOut.date \in ExifDates(dateIn.exif)
           ELSE IF YearFolders(dateIn.path) # {}
           THEN dateOut.date \in YearFolders(dateIn.path)
           ELSE dateOut.date = <<>>

====
